---- MODULE Spec2Model ----
(***************************************************************************)
(* Client-side session monitoring and batch execution of the automation   *)
(* control panel: BatchOperationsManager (executeBatch and its helpers),  *)
(* MultiLogViewer (session registry, polling, restore) and                *)
(* EnhancedLogViewer (log filter and statistics).                         *)
(*                                                                         *)
(* React state is modelled as the committed value of each useState cell.  *)
(* A handler started from a user event reads the values of the render it  *)
(* was created in, which is the committed state at the time of the event; *)
(* an async function keeps reading the values it captured when it was     *)
(* called, so every such captured value is stored with the coroutine.     *)
(* Functional updates (setX(prev => ...)) apply to the committed state.   *)
(***************************************************************************)
EXTENDS Integers, Sequences, FiniteSets, TLC

(***************************************************************************)
(* Bounds of the model                                                     *)
(***************************************************************************)
MaxDevices == 2        \* devices known to the batch manager          (SpecBatch)
MaxBatches == 2        \* batches created or cloned                   (SpecBatch)
MaxRuns == 1           \* executeBatch calls that run to their end    (SpecBatch)
WaveDevices == 3       \* devices known to the batch manager          (SpecWave)
WaveBatches == 1       \* batches created                             (SpecWave)
WaveRuns == 1          \* executeBatch calls that run to their end    (SpecWave)
LiveDevices == 2       \* devices known to the batch manager          (SpecLive)
LiveBatches == 1       \* batches created                             (SpecLive)
LiveRuns == 1          \* executeBatch calls that run to their end    (SpecLive)
MaxUnavailable == 1    \* devices a refresh reports missing or not available
MaxSessions == 2       \* session ids the backend knows      (SpecLogs, SpecRestore)
MaxFetches == 2        \* fetchSessionLogs calls that issue requests   (SpecLogs)
RestoreFetches == 1    \* fetchSessionLogs calls that issue requests   (SpecRestore)
MaxSaves == 1          \* storage writes waiting for their timer
MaxStops == 1          \* stop requests in flight                      (SpecLogs)
MaxLogLines == 1       \* lines in a logs response
MaxLogs == 2           \* logs the enhanced viewer holds               (SpecFilter)
MaxCsvLogs == 2        \* logs the enhanced viewer holds               (SpecCsv)
MaxCompared == 2       \* sessions offered to the comparison tool      (SpecCompare)
MaxLoads == 1          \* unanswered addSessionToCompare calls per session
CapSessions == 6       \* sessions offered to the comparison tool      (SpecCap)

(***************************************************************************)
(* Program constants                                                       *)
(***************************************************************************)
DefaultMaxConcurrent == 3
DefaultDelayBetween == 30
MsPerMinute == 60000
MsPerSecond == 1000
MaxComparedSessions == 5
Percent == 100

\* values typed into the two schedule inputs of the create form
TypedConcurrent(D) == 0..(D - 1)
TypedDelays == {0, 2}
NoSession == 0
NoError == "none"
NoExecution == [batchId |-> 0, sessions |-> <<>>, endTime |-> FALSE]

VARIABLES
    batches,        \* useState<BatchConfig[]>: batch id -> config and status
    executions,     \* useState<Map<string, BatchExecution>>
    devices,        \* useState<Device[]>: udid -> "avail" | "unavail" | "absent"
    isExecuting,    \* useState(false): the exclusivity lock
    runs,           \* the executeBatch calls that passed the lock check
    nextBatchId,    \* Date.now() of createBatch / cloneBatch: a fresh id
    lastNote        \* title of the last notification handed to the sink

VARIABLES
    sessions,       \* useState<Map<string, LogSession>>, in insertion order
    storage,        \* localStorage['multilog-sessions']: the saved id list
    saves,          \* setTimeout(saveSessionsToStorage, 100) not yet fired
    restore,        \* the status lookup of the mount effect, per session id
    fetches,        \* fetchSessionLogs calls waiting for their two responses
    nextFetch,      \* number of fetchSessionLogs calls that issued requests
    now,            \* the clock read by new Date(): it has moved on whenever the
                    \* responses of a fetch arrive
    stoppingSession,\* useState<string | null>(null), 0 for null
    stops           \* stopSession calls waiting for stopAutomation

VARIABLES
    logs,           \* useState<AutomationLog[]>([]) of EnhancedLogViewer
    filter,         \* useState<LogFilter>
    filteredLogs,   \* useMemo over logs and filter
    stats,          \* useMemo over filteredLogs
    selectedLogs,   \* useState<Set<number>>(new Set())
    download        \* the logs and the content of the last exported file

\* SessionComparisonTool: the sessions of the add dialog, the sessions under
\* comparison (a Map, in insertion order), the calls of addSessionToCompare
\* in flight, isLoading, and the memoised metricAnalysis of the render
VARIABLES
    availableSessions,
    compared,
    loads,
    compareLoading,
    metricAnalysis

batchVars == <<batches, executions, devices, isExecuting, runs, nextBatchId>>

logVars == <<sessions, storage, saves, restore, fetches, nextFetch, now,
             stoppingSession, stops>>

vars == <<batches, executions, devices, isExecuting, runs, nextBatchId, lastNote,
          sessions, storage, saves, restore, fetches, nextFetch, now,
          stoppingSession, stops,
          logs, filter, filteredLogs, stats, selectedLogs, download,
          availableSessions, compared, loads, compareLoading, metricAnalysis>>

filterVars == <<logs, filter, filteredLogs, stats, selectedLogs, download>>

compareVars == <<availableSessions, compared, loads, compareLoading, metricAnalysis>>

Min(a, b) == IF a < b THEN a ELSE b

(***************************************************************************)
(* BatchOperationsManager                                                  *)
(***************************************************************************)

\* parseInt(e.target.value) || 3 and || 30 of the schedule inputs
FormMaxConcurrent(typed) == IF typed = 0 THEN DefaultMaxConcurrent ELSE typed
FormDelayBetween(typed) == IF typed = 0 THEN DefaultDelayBetween ELSE typed

\* batch.schedule?.maxConcurrent || 3
EffMaxConcurrent(batch) ==
    IF batch.maxConcurrent = 0 THEN DefaultMaxConcurrent ELSE batch.maxConcurrent

\* (batch.schedule?.delayBetween || 30) * 1000
EffDelayMs(batch) ==
    (IF batch.delayBetween = 0 THEN DefaultDelayBetween ELSE batch.delayBetween) * 1000

\* execution.sessions.find(s => s.deviceId === deviceId): first match, 0 if none
FindSession(subs, deviceId) ==
    IF \E k \in 1..Len(subs) : subs[k].deviceId = deviceId
    THEN CHOOSE k \in 1..Len(subs) :
            /\ subs[k].deviceId = deviceId
            /\ \A j \in 1..(k - 1) : subs[j].deviceId # deviceId
    ELSE 0

updateSessionStatusUpsert(execs, batchId, deviceId, status, sessionId, error) ==
    [id \in DOMAIN execs \cup {batchId} |->
        IF id \in DOMAIN execs THEN execs[id]
        ELSE [batchId |-> batchId,
              sessions |-> <<[deviceId |-> deviceId, status |-> status,
                              sessionId |-> sessionId, error |-> error,
                              startTime |-> FALSE, endTime |-> FALSE]>>,
              endTime |-> FALSE]]
updateSessionStatus(execs, batchId, deviceId, status, sessionId, error) ==
    IF batchId \notin DOMAIN execs THEN execs
    ELSE LET k == FindSession(execs[batchId].sessions, deviceId)
         IN IF k = 0 THEN execs
            ELSE [execs EXCEPT ![batchId].sessions[k] =
                    [@ EXCEPT !.status = status,
                              !.sessionId = IF sessionId # NoSession THEN sessionId ELSE @,
                              !.error = IF error # NoError THEN error ELSE @,
                              !.startTime = IF status = "running" THEN TRUE ELSE @,
                              !.endTime = IF status \in {"completed", "error"} THEN TRUE ELSE @]]

\* setBatches(prev => prev.map(b => b.id === id ? {...b, status} : b))
SetBatchStatus(bs, id, status) ==
    IF id \in DOMAIN bs THEN [bs EXCEPT ![id].status = status] ELSE bs

\* batch.devices.map(deviceId => ({deviceId, status: 'pending'}))
NewExecution(batchId, devs) ==
    [batchId |-> batchId,
     sessions |-> [k \in 1..Len(devs) |->
                     [deviceId |-> devs[k], status |-> "pending", sessionId |-> NoSession,
                      error |-> NoError, startTime |-> FALSE, endTime |-> FALSE]],
     endTime |-> FALSE]

\* the id the backend gives the session it starts for a request: unique per request
SessionIdOf(r, k) == r * 10 + k

\* batch.devices.slice(i, i + maxConcurrent), as positions of batch.devices
\* (mutation: slice(i), the rest of the devices in one wave)
WaveOfRest(run) == (run.i + 1)..Len(run.devices)
WaveOf(run) == (run.i + 1)..Min(run.i + run.maxConcurrent, Len(run.devices))

\* Promise.all over the wave: resolved when every device task of the wave has ended
TaskEnded(t) == t \in {"completed", "failed", "unavailable", "nosession"}
\* (mutation: Promise.race, the wave counts as resolved with its first ended task)
WaveResolvedRace(run) == \E k \in WaveOf(run) : TaskEnded(run.tasks[k])
WaveResolved(run) == \A k \in WaveOf(run) : TaskEnded(run.tasks[k])

\* const device = devices.find(...); if (!device || !device.isAvailable) throw
DeviceAvailable(devs, deviceId) == devs[deviceId] = "avail"

\* (mutation: the availability check throws outside the try block, so the
\* sub-record is left running)
TaskStartUncaught(execs, run, k) ==
    LET d == run.devices[k]
        e1 == updateSessionStatus(execs, run.batch, d, "running", NoSession, NoError)
    IN IF DeviceAvailable(run.devs, d)
       THEN [executions |-> e1, task |-> "inflight", note |-> "none"]
       ELSE [executions |-> e1, task |-> "unavailable", note |-> "Automation Error"]

\* One device task of a wave, from `try {` up to its first await or its end:
\* mark the sub-record running, look the device up in the captured device
\* list, fail it with 'Device not available' or issue the start request.
TaskStart(execs, run, k) ==
    LET d == run.devices[k]
        e1 == updateSessionStatus(execs, run.batch, d, "running", NoSession, NoError)
    IN IF DeviceAvailable(run.devs, d)
       THEN [executions |-> e1, task |-> "inflight", note |-> "none"]
       ELSE [executions |-> updateSessionStatus(e1, run.batch, d, "error", NoSession,
                                                "Device not available"),
             task |-> "unavailable", note |-> "Automation Error"]

\* The rest of the device task once apiService.startAutomation has settled.
\*   "ok"        the response carries the new session
\*   "nosession" the response carries no session ({} as AutomationSession):
\*               the sub-record is marked completed without an id, then
\*               notifySessionStarted throws on sessionId.split and the catch
\*               block marks it error
\*   "fail"      the request rejected
TaskSettle(execs, run, r, k, outcome) ==
    LET d == run.devices[k]
    IN CASE outcome = "ok" ->
               [executions |-> updateSessionStatus(execs, run.batch, d, "completed",
                                                   SessionIdOf(r, k), NoError),
                task |-> "completed", note |-> "Automation Started"]
         [] outcome = "nosession" ->
               [executions |-> updateSessionStatus(
                                  updateSessionStatus(execs, run.batch, d, "completed",
                                                      NoSession, NoError),
                                  run.batch, d, "error", NoSession, "TypeError"),
                task |-> "nosession", note |-> "Automation Error"]
         [] OTHER ->
               [executions |-> updateSessionStatus(execs, run.batch, d, "error", NoSession,
                                                   "Request failed"),
                task |-> "failed", note |-> "Automation Error"]

\* deviceBatch.map(async (deviceId, index) => ...): position 0 of the wave runs
\* at once, every later position first waits for its stagger timer.
LaunchWave(execs, run) ==
    LET first == run.i + 1
        t == TaskStart(execs, run, first)
    IN [executions |-> t.executions,
        run |-> [run EXCEPT !.tasks = [k \in DOMAIN run.tasks |->
                                         IF k = first THEN t.task
                                         ELSE IF k \in WaveOf(run) THEN "stagger"
                                         ELSE run.tasks[k]]],
        note |-> t.note]

\* const finalExecution = executions.get(batch.id), read from the Map captured
\* when executeBatch was called; then the batch status, the end time and the
\* release of the lock.  The captured device list and Map are dead once the
\* call has returned and are cleared.
\* (mutation: setIsExecuting(false) inside `if (finalExecution)`)
FinalizeInsideIf(bs, execs, run) ==
    LET fin == run.finalExecution
        hasErrors == \E k \in 1..Len(fin.sessions) : fin.sessions[k].status = "error"
    IN [batches |-> IF fin # NoExecution
                    THEN SetBatchStatus(bs, run.batch, IF hasErrors THEN "error" ELSE "completed")
                    ELSE bs,
        executions |-> IF fin # NoExecution /\ run.batch \in DOMAIN execs
                       THEN [execs EXCEPT ![run.batch].endTime = TRUE]
                       ELSE execs,
        isExecuting |-> (fin = NoExecution),
        run |-> [run EXCEPT !.pc = "done",
                         !.devs = [d \in DOMAIN run.devs |-> "absent"],
                         !.finalExecution = NoExecution],
        note |-> "Batch Execution Completed"]
Finalize(bs, execs, run) ==
    LET fin == run.finalExecution
        hasErrors == \E k \in 1..Len(fin.sessions) : fin.sessions[k].status = "error"
    IN [batches |-> IF fin # NoExecution
                    THEN SetBatchStatus(bs, run.batch, IF hasErrors THEN "error" ELSE "completed")
                    ELSE bs,
        executions |-> IF fin # NoExecution /\ run.batch \in DOMAIN execs
                       THEN [execs EXCEPT ![run.batch].endTime = TRUE]
                       ELSE execs,
        isExecuting |-> FALSE,
        run |-> [run EXCEPT !.pc = "done",
                         !.devs = [d \in DOMAIN run.devs |-> "absent"],
                         !.finalExecution = NoExecution],
        note |-> "Batch Execution Completed"]

\* (mutation: no catch around the device task, so Promise.all rejects with the
\* first failed device and executeBatch ends there)
AfterWaveAbort(bs, execs, exe, run, note) ==
    IF run.pc = "wave" /\ \E k \in WaveOf(run) : run.tasks[k] \in {"failed", "unavailable"}
    THEN [batches |-> bs, executions |-> execs, isExecuting |-> exe,
          run |-> [run EXCEPT !.pc = "done"], note |-> note]
    ELSE IF run.pc = "wave" /\ WaveResolved(run)
    THEN IF run.i + run.maxConcurrent < Len(run.devices)
         THEN [batches |-> bs, executions |-> execs, isExecuting |-> exe,
               run |-> [run EXCEPT !.pc = "delay", !.waited = Append(@, run.delayMs)],
               note |-> note]
         ELSE Finalize(bs, execs, run)
    ELSE [batches |-> bs, executions |-> execs, isExecuting |-> exe, run |-> run, note |-> note]

\* What follows `await Promise.all(...)` once the wave has resolved: the wait
\* before the next wave, or the end of the run.  Everything up to the next
\* await runs without another handler in between.
AfterWave(bs, execs, exe, run, note) ==
    IF run.pc = "wave" /\ WaveResolved(run)
    THEN IF run.i + run.maxConcurrent < Len(run.devices)
         THEN [batches |-> bs, executions |-> execs, isExecuting |-> exe,
               run |-> [run EXCEPT !.pc = "delay", !.waited = Append(@, run.delayMs)],
               note |-> note]
         ELSE Finalize(bs, execs, run)
    ELSE [batches |-> bs, executions |-> execs, isExecuting |-> exe, run |-> run, note |-> note]

\* number of executeBatch calls that have returned
RunsDone == Cardinality({r \in 1..Len(runs) : runs[r].pc = "done"})

\* (mutation: the check looks at the batch's own status instead of the lock)
ExecutionInProgressOwn(b) == batches[b].status = "running"
\* if (isExecuting) { warn; return }
ExecutionInProgress(b) == isExecuting

\* The closure of one accepted executeBatch(batch) call.
NewRun(b) ==
    [batch |-> b,
     devices |-> batches[b].devices,
     maxConcurrent |-> EffMaxConcurrent(batches[b]),
     delayMs |-> EffDelayMs(batches[b]),
     devs |-> devices,
     finalExecution |-> IF b \in DOMAIN executions THEN executions[b] ELSE NoExecution,
     i |-> 0,
     pc |-> "wave",
     tasks |-> [k \in 1..Len(batches[b].devices) |-> "waiting"],
     waited |-> <<>>]

Commit(res, r) ==
    /\ batches' = res.batches
    /\ executions' = res.executions
    /\ isExecuting' = res.isExecuting
    /\ runs' = IF r > Len(runs) THEN Append(runs, res.run) ELSE [runs EXCEPT ![r] = res.run]
    /\ lastNote' = res.note

----
\* Actions of BatchOperationsManager

\* fetchDevices: the device list the backend answers with
FetchDevices(list) ==
    /\ list # devices
    /\ devices' = list
    /\ UNCHANGED <<batches, executions, isExecuting, runs, nextBatchId, lastNote>>
    /\ UNCHANGED <<logVars, filterVars, compareVars>>

\* createBatch with n devices ticked in the form (only available devices are
\* listed) and the two schedule inputs as typed
CreateBatch(limit, n, typedConcurrent, typedDelay) ==
    /\ nextBatchId <= limit
    /\ \A d \in 1..n : devices[d] = "avail"
    /\ batches' = [id \in DOMAIN batches \cup {nextBatchId} |->
                     IF id = nextBatchId
                     THEN [devices |-> [k \in 1..n |-> k],
                           maxConcurrent |-> FormMaxConcurrent(typedConcurrent),
                           delayBetween |-> FormDelayBetween(typedDelay),
                           status |-> "ready"]
                     ELSE batches[id]]
    /\ nextBatchId' = nextBatchId + 1
    /\ lastNote' = "Batch Created"
    /\ UNCHANGED <<executions, devices, isExecuting, runs>>
    /\ UNCHANGED <<logVars, filterVars, compareVars>>

\* cloneBatch
CloneBatch(limit, b) ==
    /\ b \in DOMAIN batches
    /\ nextBatchId <= limit
    /\ batches' = [id \in DOMAIN batches \cup {nextBatchId} |->
                     IF id = nextBatchId THEN [batches[b] EXCEPT !.status = "ready"]
                     ELSE batches[id]]
    /\ nextBatchId' = nextBatchId + 1
    /\ UNCHANGED <<executions, devices, isExecuting, runs, lastNote>>
    /\ UNCHANGED <<logVars, filterVars, compareVars>>

\* deleteBatch
DeleteBatch(b) ==
    /\ b \in DOMAIN batches
    /\ batches' = [id \in DOMAIN batches \ {b} |-> batches[id]]
    /\ executions' = [id \in DOMAIN executions \ {b} |-> executions[id]]
    /\ UNCHANGED <<devices, isExecuting, runs, nextBatchId, lastNote>>
    /\ UNCHANGED <<logVars, filterVars, compareVars>>

\* executeBatch(batch) refused by the lock check
ExecuteBatchRejected(b) ==
    /\ b \in DOMAIN batches
    /\ ExecutionInProgress(b)
    /\ lastNote' = "Execution in Progress"
    /\ UNCHANGED <<batches, executions, devices, isExecuting, runs, nextBatchId>>
    /\ UNCHANGED <<logVars, filterVars, compareVars>>

\* executeBatch(batch) up to its first await
ExecuteBatch(limit, b) ==
    /\ b \in DOMAIN batches
    /\ ~ExecutionInProgress(b)
    /\ RunsDone < limit
    /\ LET r == Len(runs) + 1
           bs == SetBatchStatus(batches, b, "running")
           ex == [id \in DOMAIN executions \cup {b} |->
                    IF id = b THEN NewExecution(b, batches[b].devices) ELSE executions[id]]
           w == LaunchWave(ex, NewRun(b))
       IN Commit(AfterWave(bs, w.executions, TRUE, w.run, w.note), r)
    /\ UNCHANGED <<devices, nextBatchId>>
    /\ UNCHANGED <<logVars, filterVars, compareVars>>

\* the stagger timer of position k fires (timers of one wave fire in order)
StaggerFire(r, k) ==
    /\ r \in 1..Len(runs)
    /\ runs[r].pc = "wave"
    /\ k \in WaveOf(runs[r])
    /\ runs[r].tasks[k] = "stagger"
    /\ \A j \in WaveOf(runs[r]) : j < k => runs[r].tasks[j] # "stagger"
    /\ LET t == TaskStart(executions, runs[r], k)
           run == [runs[r] EXCEPT !.tasks[k] = t.task]
       IN Commit(AfterWave(batches, t.executions, isExecuting, run,
                           IF t.note = "none" THEN lastNote ELSE t.note), r)
    /\ UNCHANGED <<devices, nextBatchId>>
    /\ UNCHANGED <<logVars, filterVars, compareVars>>

\* the start request of position k settles
StartSettle(r, k, outcome) ==
    /\ r \in 1..Len(runs)
    /\ k \in DOMAIN runs[r].tasks
    /\ runs[r].tasks[k] = "inflight"
    /\ LET t == TaskSettle(executions, runs[r], r, k, outcome)
           run == [runs[r] EXCEPT !.tasks[k] = t.task]
       IN Commit(AfterWave(batches, t.executions, isExecuting, run, t.note), r)
    /\ UNCHANGED <<devices, nextBatchId>>
    /\ UNCHANGED <<logVars, filterVars, compareVars>>

\* the inter-wave timer fires: i += maxConcurrent and the next wave starts
DelayFire(r) ==
    /\ r \in 1..Len(runs)
    /\ runs[r].pc = "delay"
    /\ LET w == LaunchWave(executions,
                           [runs[r] EXCEPT !.i = @ + runs[r].maxConcurrent, !.pc = "wave"])
       IN Commit(AfterWave(batches, w.executions, isExecuting, w.run,
                           IF w.note = "none" THEN lastNote ELSE w.note), r)
    /\ UNCHANGED <<devices, nextBatchId>>
    /\ UNCHANGED <<logVars, filterVars, compareVars>>

(***************************************************************************)
(* EnhancedLogViewer: filteredLogs and stats; LogPanel.filteredLogs        *)
(***************************************************************************)
NoDate == -1
LogLevels == {"info", "error"}
\* log.timestamp is a string: T and the minute it names stand for an ISO date
LogTimes == {<<"T", "0">>, <<"T", "1">>}
\* new Date(log.timestamp).getTime(), in ms
getTime(timestamp) ==
    (CASE timestamp[2] = "0" -> 0 [] timestamp[2] = "1" -> 1 [] OTHER -> 2) * MsPerMinute
\* the two date inputs of the filter, as the ms of their Date
DateFroms == {NoDate, MsPerMinute}
DateTos == {NoDate, 0}
\* message and data of a log: strings are sequences of characters
LogContents ==
    {[message |-> <<"a", "B">>, data |-> "empty"],
     [message |-> <<"b">>, data |-> "object"]}
SearchTerms == {<<>>, <<"a">>, <<"b">>}
\* patterns typed into the regex input; "(" alone does not compile
RegexInputs == {<<>>, <<"^", "b">>, <<"(">>}

LogUniverse ==
    {[timestamp |-> t, level |-> lv, message |-> c.message, data |-> c.data] :
        t \in LogTimes, lv \in LogLevels, c \in LogContents}
LogLists == UNION {[1..n -> LogUniverse] : n \in 0..MaxLogs}

DefaultFilter ==
    [level |-> "all", searchTerm |-> <<>>, dateFrom |-> NoDate, dateTo |-> NoDate,
     regex |-> <<>>, caseSensitive |-> FALSE]

LowerChar(c) == CASE c = "A" -> "a" [] c = "B" -> "b" [] OTHER -> c
toLowerCase(s) == [k \in 1..Len(s) |-> LowerChar(s[k])]
\* String.prototype.includes
includes(s, t) ==
    \E i \in 0..(Len(s) - Len(t)) : \A k \in 1..Len(t) : s[i + k] = t[k]
\* JSON.stringify(log.data): {} for the empty object, {"a":1} for {a: 1}
stringify(data) ==
    IF data = "empty"
    THEN <<"{", "}">>
    ELSE <<"{", "\"", "a", "\"", ":", "1", "}">>

\* new RegExp(pattern, flags) throws on an unbalanced group
RegExpCompilesAny(pattern) == TRUE
RegExpCompiles(pattern) == \A k \in 1..Len(pattern) : pattern[k] # "("
\* regex.test(message) for a literal pattern with an optional leading ^
RegExpTest(pattern, ignoreCase, message) ==
    LET anchored == Len(pattern) > 0 /\ pattern[1] = "^"
        literal == IF anchored THEN Tail(pattern) ELSE pattern
        p == IF ignoreCase THEN toLowerCase(literal) ELSE literal
        m == IF ignoreCase THEN toLowerCase(message) ELSE message
    IN  IF anchored
        THEN Len(p) <= Len(m) /\ SubSeq(m, 1, Len(p)) = p
        ELSE includes(m, p)

\* the search term, date range and regex tests of the callback
PassesRest(log, f) ==
    /\ f.searchTerm # <<>> =>
          LET searchIn == log.message \o <<" ">> \o stringify(log.data)
          IN  IF f.caseSensitive
              THEN includes(searchIn, f.searchTerm)
              ELSE includes(toLowerCase(searchIn), toLowerCase(f.searchTerm))
    /\ ~(f.dateFrom # NoDate /\ getTime(log.timestamp) < f.dateFrom)
    /\ ~(f.dateTo # NoDate /\ getTime(log.timestamp) > f.dateTo)
    /\ (f.regex # <<>> /\ RegExpCompiles(f.regex)) =>
          RegExpTest(f.regex, ~f.caseSensitive, log.message)

PassesLevelOnly(log, f) ==
    IF f.level # "all" THEN log.level = f.level ELSE PassesRest(log, f)
\* the callback of logs.filter in filteredLogs: every test that fails returns
\* false, a log that fails none is kept
Passes(log, f) ==
    /\ ~(f.level # "all" /\ log.level # f.level)
    /\ PassesRest(log, f)

filterLogs(ls, f) == SelectSeq(ls, LAMBDA log : Passes(log, f))

\* LogPanel.filteredLogs of MultiLogViewer
panelFilterLogs(ls, searchTerm, logLevel) ==
    SelectSeq(ls, LAMBDA log :
        /\ includes(toLowerCase(log.message), toLowerCase(searchTerm))
        /\ logLevel = "all" \/ log.level = logLevel)

\* a JavaScript number that is the quotient num / den; den = 0 stands for
\* NaN and Infinity
Quotient(n, d) == [num |-> n, den |-> d]
Zero == Quotient(0, 1)
IsZero(q) == q.num = 0 /\ q.den # 0

CountLevelAny(fl, lv) == Len(fl)
CountLevel(fl, lv) == Cardinality({k \in 1..Len(fl) : fl[k].level = lv})
ErrorRateUnguarded(fl) == Quotient(CountLevel(fl, "error") * Percent, Len(fl))
ErrorRate(fl) ==
    IF Len(fl) > 0 THEN Quotient(CountLevel(fl, "error") * Percent, Len(fl)) ELSE Zero
\* filteredLogs.length / ((lastTime - firstTime) / 60000)
AvgLogsPerMinute(fl) ==
    IF Len(fl) > 1
    THEN LET durationMs == getTime(fl[Len(fl)].timestamp) - getTime(fl[1].timestamp)
         IN  IF durationMs > 0 THEN Quotient(Len(fl) * MsPerMinute, durationMs) ELSE Zero
    ELSE Zero
computeStats(fl) ==
    [total |-> Len(fl),
     byLevel |-> [lv \in {fl[k].level : k \in 1..Len(fl)} |-> CountLevel(fl, lv)],
     errorRate |-> ErrorRate(fl),
     avgLogsPerMinute |-> AvgLogsPerMinute(fl)]

\* the two useMemo values after a render
Rendered(ls, f) ==
    /\ filteredLogs' = filterLogs(ls, f)
    /\ stats' = computeStats(filteredLogs')

\* setLogs([]) of the clear button
ClearLogs ==
    /\ logs # <<>>
    /\ logs' = <<>>
    /\ UNCHANGED filter
    /\ Rendered(<<>>, filter)
    /\ UNCHANGED <<selectedLogs, download>>
    /\ UNCHANGED <<batchVars, logVars, lastNote, compareVars>>

\* one control of the filter bar: setFilter(prev => ({...prev, [field]: value}))
SetFilter(field, value) ==
    /\ filter[field] # value
    /\ filter' = [filter EXCEPT ![field] = value]
    /\ UNCHANGED logs
    /\ Rendered(logs, filter')
    /\ UNCHANGED <<selectedLogs, download>>
    /\ UNCHANGED <<batchVars, logVars, lastNote, compareVars>>

\* exportLogs('csv'): strings are sequences of characters
NoDownload == [logs |-> <<>>, content |-> <<>>]
Chars(level) ==
    CASE level = "info" -> <<"i", "n", "f", "o">>
      [] level = "error" -> <<"e", "r", "r", "o", "r">>
      [] OTHER -> <<"a", "l", "l">>
csvHeader ==
    <<"T", "i", "m", "e", "s", "t", "a", "m", "p", ",", "L", "e", "v", "e", "l", ",",
      "M", "e", "s", "s", "a", "g", "e", ",", "D", "a", "t", "a", "\n">>
RECURSIVE Join(_, _)
\* Array.prototype.join
Join(parts, sep) ==
    IF parts = <<>> THEN <<>>
    ELSE IF Len(parts) = 1 THEN parts[1]
    ELSE parts[1] \o sep \o Join(Tail(parts), sep)
QuotesIn(str, k) == Cardinality({j \in 1..k : str[j] = "\""})
ReplaceQuotesRaw(str) == str
\* str.replace(/"/g, '""'): the k-th character lands after the characters
\* before it and one more place for each quote among them
ReplaceQuotes(str) ==
    [n \in 1..(Len(str) + QuotesIn(str, Len(str))) |->
        str[CHOOSE k \in 1..Len(str) :
                k + QuotesIn(str, k - 1) <= n /\ n <= k + QuotesIn(str, k)]]
Quoted(str) == <<"\"">> \o str \o <<"\"">>
\* the template string of one log
csvLine(log) ==
    Join(<<Quoted(log.timestamp), Quoted(Chars(log.level)),
           Quoted(ReplaceQuotes(log.message)),
           Quoted(ReplaceQuotes(stringify(log.data)))>>, <<",">>)
\* selectedLogs holds the 0-based positions of the selected logs
logsToExport(fl, selected) ==
    IF selected # {}
    THEN LET keep == {k \in 1..Len(fl) : (k - 1) \in selected}
             pos(n) == CHOOSE k \in keep : Cardinality({j \in keep : j <= k}) = n
         IN  [n \in 1..Cardinality(keep) |-> fl[pos(n)]]
    ELSE fl
csvContent(ls) == csvHeader \o Join([k \in 1..Len(ls) |-> csvLine(ls[k])], <<"\n">>)

\* the csv button of the export menu
ExportLogs ==
    /\ download' = [logs |-> logsToExport(filteredLogs, selectedLogs),
                    content |-> csvContent(logsToExport(filteredLogs, selectedLogs))]
    /\ download' # download
    /\ UNCHANGED <<logs, filter, filteredLogs, stats, selectedLogs>>
    /\ UNCHANGED <<batchVars, logVars, lastNote, compareVars>>

\* shift-click on the log at 0-based position index
ToggleSelected(index) ==
    /\ index < Len(filteredLogs)
    /\ selectedLogs' = IF index \in selectedLogs
                       THEN selectedLogs \ {index}
                       ELSE selectedLogs \cup {index}
    /\ UNCHANGED <<logs, filter, filteredLogs, stats, download>>
    /\ UNCHANGED <<batchVars, logVars, lastNote, compareVars>>

\* the viewer is not on the page
FilterIdle ==
    /\ logs = <<>>
    /\ filter = DefaultFilter
    /\ filteredLogs = <<>>
    /\ stats = computeStats(<<>>)
    /\ selectedLogs = {}
    /\ download = NoDownload

(***************************************************************************)
(* SessionComparisonTool                                                   *)
(***************************************************************************)
\* the result of message.match(checkpointRegex): no match, or the name matched
NoCheckpoint == "none"

\* a / b < c / d for quotients with positive denominators
Less(p, q) == p.num * q.den < q.num * p.den

MetricKeys ==
    {"totalLogs", "errorCount", "warningCount", "duration",
     "checkpointsCompleted", "errorRate"}
betterWhen(key) == IF key = "checkpointsCompleted" THEN "higher" ELSE "lower"

\* the checkpoints pushed to the timeline: a match that differs from the
\* current checkpoint, which starts at session.checkpoint
RECURSIVE Timeline(_, _)
Timeline(ls, currentCheckpoint) ==
    IF ls = <<>> THEN <<>>
    ELSE IF Head(ls).checkpoint # NoCheckpoint /\ Head(ls).checkpoint # currentCheckpoint
         THEN <<Head(ls).checkpoint>> \o Timeline(Tail(ls), Head(ls).checkpoint)
         ELSE Timeline(Tail(ls), currentCheckpoint)

calculateMetrics(session, ls) ==
    LET errorCount == CountLevel(ls, "error")
        duration == Quotient(session.endTime - session.startTime, MsPerSecond)
    IN  [totalLogs |-> Quotient(Len(ls), 1),
         errorCount |-> Quotient(errorCount, 1),
         warningCount |-> Quotient(CountLevel(ls, "warn"), 1),
         duration |-> duration,
         checkpointsCompleted |-> Quotient(Len(Timeline(ls, session.checkpoint)), 1),
         errorRate |-> IF Len(ls) > 0 THEN Quotient(errorCount, Len(ls)) ELSE Zero]

\* the comparisons of the forEach callback that move bestValue and worstValue
BeatsHigherOnly(key, value, bestValue) == Less(bestValue, value)
Beats(key, value, bestValue) ==
    IF betterWhen(key) = "higher" THEN Less(bestValue, value) ELSE Less(value, bestValue)
Trails(key, value, worstValue) ==
    IF betterWhen(key) = "higher" THEN Less(value, worstValue) ELSE Less(worstValue, value)

NoId == 0
ValueOf(cs, id, key) == (CHOOSE e \in {cs[j] : j \in 1..Len(cs)} : e.id = id).metrics[key]
\* sessions.forEach over the first k entries: the ids held by bestId and worstId
RECURSIVE BestOf(_, _, _)
BestOf(cs, key, k) ==
    IF k = 0 THEN NoId
    ELSE LET before == BestOf(cs, key, k - 1) IN
         IF before = NoId \/ Beats(key, cs[k].metrics[key], ValueOf(cs, before, key))
         THEN cs[k].id
         ELSE before
RECURSIVE WorstOf(_, _, _)
WorstOf(cs, key, k) ==
    IF k = 0 THEN NoId
    ELSE LET before == WorstOf(cs, key, k - 1) IN
         IF before = NoId \/ Trails(key, cs[k].metrics[key], ValueOf(cs, before, key))
         THEN cs[k].id
         ELSE before

Analysis(cs) ==
    [key \in MetricKeys |->
        [best |-> BestOf(cs, key, Len(cs)), worst |-> WorstOf(cs, key, Len(cs))]]

\* Best Overall Performance of the summary: the metrics a session is best in
Score(analysis, id) == Cardinality({key \in MetricKeys : analysis[key].best = id})
NoScore == -1
\* the comparison that moves bestScore
OutscoresOrTies(score, bestScore) == score >= bestScore
Outscores(score, bestScore) == score > bestScore
\* sessions.forEach over the first k entries: the id held by bestId
RECURSIVE BestOverallOf(_, _, _)
BestOverallOf(cs, analysis, k) ==
    IF k = 0 THEN NoId
    ELSE LET before == BestOverallOf(cs, analysis, k - 1)
             bestScore == IF before = NoId THEN NoScore ELSE Score(analysis, before)
         IN  IF Outscores(Score(analysis, cs[k].id), bestScore) THEN cs[k].id ELSE before

CompareIds == 1..MaxCompared
ComparedHas(cs, id) == \E k \in 1..Len(cs) : cs[k].id = id
\* Map.set: a key already present keeps its place
ComparedSet(cs, entry) ==
    IF ComparedHas(cs, entry.id)
    THEN [k \in 1..Len(cs) |-> IF cs[k].id = entry.id THEN entry ELSE cs[k]]
    ELSE Append(cs, entry)
ComparedDelete(cs, id) == SelectSeq(cs, LAMBDA e : e.id # id)

\* the sessions getAutomationSessions can answer with, one per id (clock
\* readings in milliseconds; for a session without endTime the reading of
\* Date.now() stands in)
SessionLists ==
    [CompareIds -> {[startTime |-> 0, endTime |-> MsPerSecond, checkpoint |-> NoCheckpoint],
                    [startTime |-> 0, endTime |-> 3 * MsPerSecond, checkpoint |-> "login"]}]

Line(lv, cp) == [level |-> lv, checkpoint |-> cp]
Repeat(x, n) == [k \in 1..n |-> x]
\* the answers of getAutomationLogs: ten logs with two errors, ten logs with
\* none, and short lists with warnings and checkpoints
CompareLogs ==
    {Repeat(Line("info", NoCheckpoint), 4) \o <<Line("error", NoCheckpoint)>>
        \o Repeat(Line("info", NoCheckpoint), 4) \o <<Line("error", NoCheckpoint)>>,
     Repeat(Line("info", NoCheckpoint), 10),
     <<Line("warn", "login"), Line("info", "swipe")>>,
     <<>>}

\* the Add Session button is disabled once sessions.size >= 5, and the dialog
\* it opens lists the sessions that are not compared yet.
\* the call waits for getAutomationLogs; loads counts, per session, the calls
\* that wait (the session object a call holds is the one of the dialog's list,
\* which is fetched once)
AddSessionToCompare(id) ==
    /\ Len(compared) < MaxComparedSessions
    /\ ~ComparedHas(compared, id)
    /\ loads[id] < MaxLoads
    /\ loads' = [loads EXCEPT ![id] = @ + 1]
    /\ compareLoading' = TRUE
    /\ UNCHANGED <<availableSessions, compared, metricAnalysis>>
    /\ UNCHANGED <<batchVars, lastNote, logVars, filterVars>>

LoadOk(id, ls) ==
    /\ loads[id] > 0
    /\ loads' = [loads EXCEPT ![id] = @ - 1]
    /\ compared' = ComparedSet(compared,
            [id |-> id, session |-> availableSessions[id], logs |-> ls,
             metrics |-> calculateMetrics(availableSessions[id], ls)])
    /\ metricAnalysis' = Analysis(compared')
    /\ compareLoading' = FALSE
    /\ UNCHANGED availableSessions
    /\ UNCHANGED <<batchVars, lastNote, logVars, filterVars>>

LoadFail(id) ==
    /\ loads[id] > 0
    /\ loads' = [loads EXCEPT ![id] = @ - 1]
    /\ compareLoading' = FALSE
    /\ UNCHANGED <<availableSessions, compared, metricAnalysis>>
    /\ UNCHANGED <<batchVars, lastNote, logVars, filterVars>>

RemoveCompared(sessionId) ==
    /\ ComparedHas(compared, sessionId)
    /\ compared' = ComparedDelete(compared, sessionId)
    /\ metricAnalysis' = Analysis(compared')
    /\ UNCHANGED <<availableSessions, loads, compareLoading>>
    /\ UNCHANGED <<batchVars, lastNote, logVars, filterVars>>

CompareIdle ==
    /\ availableSessions = <<>>
    /\ compared = <<>>
    /\ loads = [id \in CompareIds |-> 0]
    /\ compareLoading = FALSE
    /\ metricAnalysis = Analysis(<<>>)

(***************************************************************************)
(* MultiLogViewer                                                          *)
(***************************************************************************)
SessionIds == 1..MaxSessions
NoStopping == 0
SessionStatuses == {"running", "stopped"}

\* a JavaScript Map keeps its entries in insertion order: a sequence of
\* entries, each carrying its key in the field id
MapHas(m, id) == \E k \in 1..Len(m) : m[k].id = id
MapGet(m, id) ==
    m[CHOOSE k \in 1..Len(m) : m[k].id = id /\ \A j \in 1..(k - 1) : m[j].id # id]
MapKeys(m) == [k \in 1..Len(m) |-> m[k].id]
MapDelete(m, id) == SelectSeq(m, LAMBDA e : e.id # id)
MapSetPush(m, id, e) == Append(m, e)
\* Map.prototype.set: replaces the value of a key that is present
MapSet(m, id, e) ==
    IF MapHas(m, id)
    THEN [k \in 1..Len(m) |-> IF m[k].id = id THEN e ELSE m[k]]
    ELSE Append(m, e)

\* the LogSession that addSession stores
NewLogSession(id, status, t) ==
    [id |-> id, status |-> status, logs |-> <<>>, isLoading |-> TRUE,
     error |-> NoError, isPaused |-> FALSE, autoScroll |-> TRUE,
     searchTerm |-> "", logLevel |-> "all", lastUpdate |-> t]

\* fetchSessionLogs reads the Map of the render it was created in and returns
\* before any request when that Map has no such entry or the entry is paused
FetchGoesOut(captured, id) == MapHas(captured, id) /\ ~MapGet(captured, id).isPaused
NewFetch(id, n, awaited) == [id |-> id, seq |-> n, awaited |-> awaited]

\* the entries of the Map whose fetch goes out, in the order of forEach
PolledAll(m) == m
Polled(m) == SelectSeq(m, LAMBDA e : FetchGoesOut(m, e.id))

\* the try block of fetchSessionLogs after both responses arrived
\* (mutation: the updater sets the key without looking at `current`)
FetchWriteUpsert(m, id, status, lines, t) ==
    MapSet(m, id, [(IF MapHas(m, id) THEN MapGet(m, id) ELSE NewLogSession(id, status, t))
                      EXCEPT !.status = status,
                             !.logs = [k \in 1..lines |-> k],
                             !.lastUpdate = t,
                             !.error = NoError])
FetchWrite(m, id, status, lines, t) ==
    IF MapHas(m, id)
    THEN MapSet(m, id, [MapGet(m, id) EXCEPT !.status = status,
                                             !.logs = [k \in 1..lines |-> k],
                                             !.lastUpdate = t,
                                             !.error = NoError])
    ELSE m
\* the catch block of fetchSessionLogs
\* (mutation: the catch block also empties the logs)
FetchErrorClears(m, id) ==
    IF MapHas(m, id)
    THEN MapSet(m, id, [MapGet(m, id) EXCEPT !.error = "Failed to fetch logs",
                                             !.isLoading = FALSE,
                                             !.logs = <<>>])
    ELSE m
FetchError(m, id) ==
    IF MapHas(m, id)
    THEN MapSet(m, id, [MapGet(m, id) EXCEPT !.error = "Failed to fetch logs",
                                             !.isLoading = FALSE])
    ELSE m

\* a failed lookup of the mount effect ends in the catch of its own callback
RestoreSkipAbort(rs, id) == [s \in DOMAIN rs |-> IF rs[s] = "pending" THEN "failed" ELSE rs[s]]
RestoreSkip(rs, id) == [rs EXCEPT ![id] = "failed"]

\* addSession(session) of the add dialog: the entry is stored, the write of the
\* id list is scheduled and fetchSessionLogs is called, both with the Map of
\* the render the handler belongs to
AddSession(limit, id, status) ==
    /\ Len(saves) < MaxSaves
    /\ FetchGoesOut(sessions, id) => nextFetch < limit
    /\ sessions' = MapSet(sessions, id, NewLogSession(id, status, now))
    /\ saves' = Append(saves, MapKeys(sessions))
    /\ IF FetchGoesOut(sessions, id)
       THEN /\ fetches' = fetches \cup {NewFetch(id, nextFetch + 1, FALSE)}
            /\ nextFetch' = nextFetch + 1
       ELSE UNCHANGED <<fetches, nextFetch>>
    /\ UNCHANGED <<storage, restore, now, stoppingSession, stops, lastNote>>
    /\ UNCHANGED <<batchVars, filterVars, compareVars>>

RemoveSession(id) ==
    /\ MapHas(sessions, id)
    /\ Len(saves) < MaxSaves
    /\ sessions' = MapDelete(sessions, id)
    /\ saves' = Append(saves, MapKeys(sessions))
    /\ UNCHANGED <<storage, restore, fetches, nextFetch, now, stoppingSession, stops,
                   lastNote>>
    /\ UNCHANGED <<batchVars, filterVars, compareVars>>

\* the 100 ms timers fire in the order they were set
SaveFire ==
    /\ saves # <<>>
    /\ storage' = Head(saves)
    /\ saves' = Tail(saves)
    /\ UNCHANGED <<sessions, restore, fetches, nextFetch, now, stoppingSession, stops,
                   lastNote>>
    /\ UNCHANGED <<batchVars, filterVars, compareVars>>

TogglePause(id) ==
    /\ MapHas(sessions, id)
    /\ sessions' = MapSet(sessions, id,
                      [MapGet(sessions, id) EXCEPT !.isPaused = ~MapGet(sessions, id).isPaused])
    /\ UNCHANGED <<storage, saves, restore, fetches, nextFetch, now, stoppingSession,
                   stops, lastNote>>
    /\ UNCHANGED <<batchVars, filterVars, compareVars>>

ClearAllSessions ==
    /\ sessions # <<>>
    /\ sessions' = <<>>
    /\ storage' = <<>>
    /\ UNCHANGED <<saves, restore, fetches, nextFetch, now, stoppingSession, stops,
                   lastNote>>
    /\ UNCHANGED <<batchVars, filterVars, compareVars>>

\* one firing of the global interval (and the Sync All button): fetchSessionLogs
\* for every entry of the Map of the current render
RefreshAll(limit) ==
    LET polled == Polled(sessions) IN
    /\ polled # <<>>
    /\ nextFetch + Len(polled) <= limit
    /\ fetches' = fetches \cup
          {NewFetch(polled[k].id, nextFetch + k, FALSE) : k \in 1..Len(polled)}
    /\ nextFetch' = nextFetch + Len(polled)
    /\ UNCHANGED <<sessions, storage, saves, restore, now, stoppingSession, stops,
                   lastNote>>
    /\ UNCHANGED <<batchVars, filterVars, compareVars>>

\* what follows await fetchSessionLogs(sessionId) in stopSession
AfterFetch(f) ==
    IF f.awaited
    THEN /\ lastNote' = "Session Stopped"
         /\ stoppingSession' = NoStopping
    ELSE UNCHANGED <<lastNote, stoppingSession>>

\* both responses of a fetch arrived
FetchOk(f, status, lines) ==
    /\ f \in fetches
    /\ fetches' = fetches \ {f}
    /\ now' = now + 1
    /\ sessions' = FetchWrite(sessions, f.id, status, lines, now')
    /\ AfterFetch(f)
    /\ UNCHANGED <<storage, saves, restore, nextFetch, stops>>
    /\ UNCHANGED <<batchVars, filterVars, compareVars>>

\* one of the two requests of a fetch failed
FetchFail(f) ==
    /\ f \in fetches
    /\ fetches' = fetches \ {f}
    /\ sessions' = FetchError(sessions, f.id)
    /\ AfterFetch(f)
    /\ UNCHANGED <<storage, saves, restore, nextFetch, now, stops>>
    /\ UNCHANGED <<batchVars, filterVars, compareVars>>

\* the Stop button of a panel, confirmed: the call keeps the fetchSessionLogs
\* of the render it was made in, so whether its fetch goes out is decided by
\* the Map of that render
StopSession(id) ==
    /\ MapHas(sessions, id)
    /\ MapGet(sessions, id).status = "running"
    /\ stoppingSession # id
    /\ Cardinality(stops) < MaxStops
    /\ \A c \in stops : c.id # id
    /\ stoppingSession' = id
    /\ stops' = stops \cup {[id |-> id, goes |-> FetchGoesOut(sessions, id)]}
    /\ UNCHANGED <<sessions, storage, saves, restore, fetches, nextFetch, now, lastNote>>
    /\ UNCHANGED <<batchVars, filterVars, compareVars>>

\* stopAutomation answered
StopSettle(limit, c, ok) ==
    /\ c \in stops
    /\ stops' = stops \ {c}
    /\ IF ok /\ c.goes
       THEN /\ nextFetch < limit
            /\ fetches' = fetches \cup {NewFetch(c.id, nextFetch + 1, TRUE)}
            /\ nextFetch' = nextFetch + 1
            /\ UNCHANGED <<stoppingSession, lastNote>>
       ELSE /\ lastNote' = IF ok THEN "Session Stopped" ELSE "Failed to Stop"
            /\ stoppingSession' = NoStopping
            /\ UNCHANGED <<fetches, nextFetch>>
    /\ UNCHANGED <<sessions, storage, saves, restore, now>>
    /\ UNCHANGED <<batchVars, filterVars, compareVars>>

\* a status lookup of the mount effect answered with the session: addSession
\* of the first render, whose Map is empty, so its fetchSessionLogs returns at
\* once; nothing is written to the storage
RestoreOk(id, status) ==
    /\ restore[id] = "pending"
    /\ restore' = [restore EXCEPT ![id] = "ok"]
    /\ sessions' = MapSet(sessions, id, NewLogSession(id, status, now))
    /\ UNCHANGED <<storage, saves, fetches, nextFetch, now, stoppingSession, stops,
                   lastNote>>
    /\ UNCHANGED <<batchVars, filterVars, compareVars>>

\* a status lookup of the mount effect failed
RestoreFail(id) ==
    /\ restore[id] = "pending"
    /\ restore' = RestoreSkip(restore, id)
    /\ UNCHANGED <<sessions, storage, saves, fetches, nextFetch, now, stoppingSession,
                   stops, lastNote>>
    /\ UNCHANGED <<batchVars, filterVars, compareVars>>

\* the id lists a former visit can have left in the storage
SavedLists ==
    {l \in UNION {[1..n -> SessionIds] : n \in 0..MaxSessions} :
        \A i, j \in 1..Len(l) : i # j => l[i] # l[j]}

\* the batch manager is not on the page
BatchIdle ==
    /\ batches = <<>>
    /\ executions = <<>>
    /\ devices = <<>>
    /\ isExecuting = FALSE
    /\ runs = <<>>
    /\ nextBatchId = 1

\* the viewer after its first render and mount effect: one lookup per saved id
LogsInit(saved) ==
    /\ sessions = <<>>
    /\ storage \in IF saved THEN SavedLists ELSE {<<>>}
    /\ saves = <<>>
    /\ restore = [id \in SessionIds |->
                    IF \E k \in 1..Len(storage) : storage[k] = id THEN "pending" ELSE "none"]
    /\ fetches = {}
    /\ nextFetch = 0
    /\ now = 0
    /\ stoppingSession = NoStopping
    /\ stops = {}
    /\ CompareIdle
    /\ lastNote = "none"
    /\ BatchIdle
    /\ FilterIdle

\* the viewer is not on the page
LogsIdle ==
    /\ sessions = <<>>
    /\ storage = <<>>
    /\ saves = <<>>
    /\ restore = [id \in SessionIds |-> "none"]
    /\ fetches = {}
    /\ nextFetch = 0
    /\ now = 0
    /\ stoppingSession = NoStopping
    /\ stops = {}

\* The viewer opened with nothing saved: polling, pausing and stopping.
LogsNext ==
    \/ \E id \in SessionIds : AddSession(MaxFetches, id, "running")
    \/ \E id \in SessionIds : RemoveSession(id)
    \/ SaveFire
    \/ \E id \in SessionIds : TogglePause(id)
    \/ ClearAllSessions
    \/ RefreshAll(MaxFetches)
    \/ \E f \in fetches, st \in SessionStatuses, n \in 0..MaxLogLines : FetchOk(f, st, n)
    \/ \E f \in fetches : FetchFail(f)
    \/ \E id \in SessionIds : StopSession(id)
    \/ \E c \in stops, ok \in BOOLEAN : StopSettle(MaxFetches, c, ok)

SpecLogs == LogsInit(FALSE) /\ [][LogsNext]_vars

\* The viewer opened on a saved id list: the lookups of the mount effect among
\* the actions of the user.
RestoreNext ==
    \/ \E id \in SessionIds, st \in SessionStatuses : RestoreOk(id, st)
    \/ \E id \in SessionIds : RestoreFail(id)
    \/ \E id \in SessionIds : AddSession(RestoreFetches, id, "running")
    \/ \E id \in SessionIds : RemoveSession(id)
    \/ SaveFire
    \/ \E id \in SessionIds : TogglePause(id)
    \/ ClearAllSessions
    \/ RefreshAll(RestoreFetches)
    \/ \E f \in fetches, st \in SessionStatuses, n \in 0..MaxLogLines : FetchOk(f, st, n)
    \/ \E f \in fetches : FetchFail(f)

SpecRestore == LogsInit(TRUE) /\ [][RestoreNext]_vars

\* the viewer after fetchData has brought the logs (setLogs(logsResponse.logs)),
\* the filter still as constructed
FilterInit ==
    /\ logs \in LogLists
    /\ filter = DefaultFilter
    /\ filteredLogs = filterLogs(logs, filter)
    /\ stats = computeStats(filteredLogs)
    /\ selectedLogs = {}
    /\ download = NoDownload
    /\ LogsIdle
    /\ BatchIdle
    /\ CompareIdle
    /\ lastNote = "none"

FilterNext ==
    \/ ClearLogs
    \/ \E lv \in LogLevels \cup {"all"} : SetFilter("level", lv)
    \/ \E t \in SearchTerms : SetFilter("searchTerm", t)
    \/ \E d \in DateFroms : SetFilter("dateFrom", d)
    \/ \E d \in DateTos : SetFilter("dateTo", d)
    \/ \E p \in RegexInputs : SetFilter("regex", p)
    \/ \E c \in BOOLEAN : SetFilter("caseSensitive", c)

SpecFilter == FilterInit /\ [][FilterNext]_vars

\* the logs a viewer can hold when its export menu is used
CsvMessages ==
    {<<>>, <<"a">>, <<"\"">>, <<"a", ",", "b">>, <<"\"", ",", "\"">>, <<"a", "\n", "b">>,
     <<"b", "o", "o", "m", " ", "\"", "q", "u", "o", "t", "e", "d", "\"">>}
CsvLogs ==
    {[timestamp |-> IF Len(m) <= 1 THEN <<"T", "0">> ELSE <<"T", "1">>,
      level |-> IF Len(m) = 3 THEN "info" ELSE "error",
      message |-> m,
      data |-> IF m = <<"a">> THEN "object" ELSE "empty"] : m \in CsvMessages}
CsvLogLists == UNION {[1..n -> CsvLogs] : n \in 0..MaxCsvLogs}

\* the viewer after fetchData has brought the logs, nothing selected or exported
CsvInit ==
    /\ logs \in CsvLogLists
    /\ filter = DefaultFilter
    /\ filteredLogs = filterLogs(logs, filter)
    /\ stats = computeStats(filteredLogs)
    /\ selectedLogs = {}
    /\ download = NoDownload
    /\ LogsIdle
    /\ BatchIdle
    /\ CompareIdle
    /\ lastNote = "none"

CsvNext ==
    \/ \E index \in 0..(MaxCsvLogs - 1) : ToggleSelected(index)
    \/ ExportLogs

SpecCsv == CsvInit /\ [][CsvNext]_vars

\* the tool once fetchAvailableSessions has brought the sessions
CompareInit ==
    /\ availableSessions \in SessionLists
    /\ compared = <<>>
    /\ loads = [id \in CompareIds |-> 0]
    /\ compareLoading = FALSE
    /\ metricAnalysis = Analysis(<<>>)
    /\ LogsIdle
    /\ BatchIdle
    /\ FilterIdle
    /\ lastNote = "none"

CompareNext ==
    \/ \E id \in CompareIds : AddSessionToCompare(id)
    \/ \E id \in CompareIds, ls \in CompareLogs : LoadOk(id, ls)
    \/ \E id \in CompareIds : LoadFail(id)
    \/ \E id \in CompareIds : RemoveCompared(id)

SpecCompare == CompareInit /\ [][CompareNext]_vars

\* the tool with CapSessions sessions on offer, all alike and without logs
CapInit ==
    /\ availableSessions =
          [id \in 1..CapSessions |->
              [startTime |-> 0, endTime |-> MsPerSecond, checkpoint |-> NoCheckpoint]]
    /\ compared = <<>>
    /\ loads = [id \in 1..CapSessions |-> 0]
    /\ compareLoading = FALSE
    /\ metricAnalysis = Analysis(<<>>)
    /\ LogsIdle
    /\ BatchIdle
    /\ FilterIdle
    /\ lastNote = "none"

CapNext ==
    \/ \E id \in 1..CapSessions : AddSessionToCompare(id)
    \/ \E id \in 1..CapSessions : LoadOk(id, <<>>)
    \/ \E id \in 1..CapSessions : LoadFail(id)
    \/ \E id \in 1..CapSessions : RemoveCompared(id)

SpecCap == CapInit /\ [][CapNext]_vars

\* the device lists a refresh can bring: at most MaxUnavailable devices are
\* missing from the list or listed as not available
DeviceLists(D) ==
    {l \in [1..D -> {"avail", "unavail", "absent"}] :
        Cardinality({d \in 1..D : l[d] # "avail"}) <= MaxUnavailable}

BatchInit(D) ==
    /\ batches = <<>>
    /\ executions = <<>>
    /\ devices = [d \in 1..D |-> "absent"]
    /\ isExecuting = FALSE
    /\ runs = <<>>
    /\ nextBatchId = 1
    /\ CompareIdle
    /\ lastNote = "none"
    /\ LogsIdle
    /\ FilterIdle

\* the steps of an execution in progress
RunStep ==
    \/ \E r \in 1..Len(runs), k \in DOMAIN devices : StaggerFire(r, k)
    \/ \E r \in 1..Len(runs), k \in DOMAIN devices, o \in {"ok", "nosession", "fail"} :
          StartSettle(r, k, o)
    \/ \E r \in 1..Len(runs) : DelayFire(r)

\* Several batches of up to MaxDevices devices: the lock between executions.
BatchNext ==
    \/ \E list \in DeviceLists(MaxDevices) : FetchDevices(list)
    \/ \E n \in 1..MaxDevices, c \in TypedConcurrent(MaxDevices), t \in TypedDelays :
          CreateBatch(MaxBatches, n, c, t)
    \/ \E b \in DOMAIN batches : CloneBatch(MaxBatches, b)
    \/ \E b \in DOMAIN batches : DeleteBatch(b)
    \/ \E b \in DOMAIN batches : ExecuteBatchRejected(b)
    \/ \E b \in DOMAIN batches : ExecuteBatch(MaxRuns, b)
    \/ RunStep

SpecBatch == BatchInit(MaxDevices) /\ [][BatchNext]_vars

\* One batch of up to WaveDevices devices, never cloned: the waves of an
\* execution.
WaveNext ==
    \/ \E list \in DeviceLists(WaveDevices) : FetchDevices(list)
    \/ \E n \in 1..WaveDevices, c \in TypedConcurrent(WaveDevices), t \in TypedDelays :
          CreateBatch(WaveBatches, n, c, t)
    \/ \E b \in DOMAIN batches : DeleteBatch(b)
    \/ \E b \in DOMAIN batches : ExecuteBatchRejected(b)
    \/ \E b \in DOMAIN batches : ExecuteBatch(WaveRuns, b)
    \/ RunStep

SpecWave == BatchInit(WaveDevices) /\ [][WaveNext]_vars

\* One batch of up to LiveDevices devices whose timers fire and whose start
\* requests settle: a step of an execution in progress that stays possible is
\* taken.
LiveNext ==
    \/ \E list \in DeviceLists(LiveDevices) : FetchDevices(list)
    \/ \E n \in 1..LiveDevices, c \in TypedConcurrent(LiveDevices), t \in TypedDelays :
          CreateBatch(LiveBatches, n, c, t)
    \/ \E b \in DOMAIN batches : ExecuteBatchRejected(b)
    \/ \E b \in DOMAIN batches : ExecuteBatch(LiveRuns, b)
    \/ RunStep

SpecLive == BatchInit(LiveDevices) /\ [][LiveNext]_vars /\ WF_vars(RunStep)

----
\* Properties of the batch executor

ActiveRuns == {r \in 1..Len(runs) : runs[r].pc # "done"}
\* run r is the last execution of its batch and its BatchExecution is in the Map
OwnsExecution(r) ==
    /\ runs[r].batch \in DOMAIN executions
    /\ \A q \in 1..Len(runs) : q > r => runs[q].batch # runs[r].batch
SubRecords(r) == executions[runs[r].batch].sessions

\* C1: while a batch execution is in progress no executeBatch call starts
\* another one: no run is added, every batch other than the executing one
\* keeps its status and gets no BatchExecution, and no start request is in
\* flight for it; at most one execution is running at any time.
C1_BatchExclusivity ==
    [][/\ Cardinality(ActiveRuns') <= 1
       /\ ActiveRuns # {} =>
            /\ Len(runs') = Len(runs)
            /\ \A b \in DOMAIN batches \ {runs[r].batch : r \in ActiveRuns} :
                  /\ b \in DOMAIN batches' => batches'[b].status = batches[b].status
                  /\ b \in DOMAIN executions' =>
                        b \in DOMAIN executions /\ executions'[b] = executions[b]]_vars

\* a second batch was refused while the first was executing
C1_Witness ==
    /\ lastNote = "Execution in Progress"
    /\ \E r \in ActiveRuns : \E k \in DOMAIN runs[r].tasks : runs[r].tasks[k] = "inflight"
    /\ \E b \in DOMAIN batches :
          /\ batches[b].status = "ready"
          /\ b \notin DOMAIN executions
          /\ \A r \in 1..Len(runs) : runs[r].batch # b

\* C2: once executeBatch has returned, the BatchExecution it created has one
\* sub-record per device of the batch and each is completed or error.
C2_AllTerminal ==
    \A r \in 1..Len(runs) :
        (runs[r].pc = "done" /\ OwnsExecution(r)) =>
            /\ Len(SubRecords(r)) = Len(runs[r].devices)
            /\ \A k \in 1..Len(SubRecords(r)) :
                  /\ SubRecords(r)[k].deviceId = runs[r].devices[k]
                  /\ SubRecords(r)[k].status \in {"completed", "error"}

\* a finished run of three devices: one unavailable, one failed, one started
C2_Witness ==
    \E r \in 1..Len(runs) :
        /\ runs[r].pc = "done" /\ OwnsExecution(r)
        /\ Len(SubRecords(r)) = 3
        /\ \E k \in 1..3 : SubRecords(r)[k].error = "Device not available"
        /\ \E k \in 1..3 : SubRecords(r)[k].error = "Request failed"
        /\ \E k \in 1..3 : SubRecords(r)[k].status = "completed"

\* C3: a device that fails leaves the other devices alone.  A device is failed
\* without a request exactly when the captured device list does not have it
\* available; every other launched device has its request issued; a run that
\* has returned has gone through all its devices; and a device whose request
\* brought a session is completed with that session's id.
C3_IsolatedFailure ==
    \A r \in 1..Len(runs) :
        /\ runs[r].pc = "done" => \A k \in DOMAIN runs[r].tasks : TaskEnded(runs[r].tasks[k])
        /\ runs[r].pc # "done" =>
              \A k \in DOMAIN runs[r].tasks :
                  /\ runs[r].tasks[k] = "unavailable" =>
                        ~DeviceAvailable(runs[r].devs, runs[r].devices[k])
                  /\ runs[r].tasks[k] \in {"inflight", "completed", "failed", "nosession"} =>
                        DeviceAvailable(runs[r].devs, runs[r].devices[k])
        /\ OwnsExecution(r) =>
              \A k \in DOMAIN runs[r].tasks :
                  runs[r].tasks[k] = "completed" =>
                      /\ SubRecords(r)[k].status = "completed"
                      /\ SubRecords(r)[k].sessionId = SessionIdOf(r, k)

\* of three devices the second failed and the first and third completed with
\* their own session ids
C3_Witness ==
    \E r \in 1..Len(runs) :
        /\ runs[r].pc = "done" /\ OwnsExecution(r)
        /\ Len(runs[r].devices) = 3
        /\ runs[r].tasks[2] = "failed"
        /\ SubRecords(r)[2].status = "error"
        /\ \A k \in {1, 3} :
              /\ SubRecords(r)[k].status = "completed"
              /\ SubRecords(r)[k].sessionId = SessionIdOf(r, k)

\* C4: the devices are taken in order in consecutive waves of maxConcurrent
\* positions (the last one possibly shorter), and a wave is launched only when
\* every device task of the waves before it has ended.
C4_WavesSequential ==
    \A r \in 1..Len(runs) :
        LET run == runs[r]
            n == Len(run.devices)
        IN /\ run.i % run.maxConcurrent = 0
           /\ run.i < n
           /\ WaveOf(run) = {k \in 1..n : (k - 1) \div run.maxConcurrent = run.i \div run.maxConcurrent}
           /\ \A k \in 1..n :
                 /\ k > run.i + run.maxConcurrent => run.tasks[k] = "waiting"
                 /\ run.tasks[k] # "waiting" => k <= run.i + run.maxConcurrent
                 /\ (k <= run.i /\ \E j \in 1..n : run.tasks[j] \in {"stagger", "inflight"}) =>
                       TaskEnded(run.tasks[k])
           /\ run.pc = "delay" => \A k \in 1..n : run.tasks[k] \notin {"stagger", "inflight"}

\* three devices, maxConcurrent 2: the second, shorter wave has its request in
\* flight after both requests of the first wave have resolved
C4_Witness ==
    \E r \in 1..Len(runs) :
        /\ runs[r].i = 2 /\ runs[r].maxConcurrent = 2 /\ Len(runs[r].devices) = 3
        /\ runs[r].pc = "wave"
        /\ \E k \in WaveOf(runs[r]) : runs[r].tasks[k] = "inflight"
        /\ \A k \in 1..runs[r].i : TaskEnded(runs[r].tasks[k])

\* C5: once executeBatch has returned, the batch is error if one of its
\* sub-records is error and completed otherwise.
C5_FinalStatus ==
    \A r \in 1..Len(runs) :
        (runs[r].pc = "done" /\ OwnsExecution(r) /\ runs[r].batch \in DOMAIN batches) =>
            batches[runs[r].batch].status =
                IF \E k \in 1..Len(SubRecords(r)) : SubRecords(r)[k].status = "error"
                THEN "error" ELSE "completed"

----
\* Properties of the session registry of MultiLogViewer

EntriesOf(m, id) == {k \in 1..Len(m) : m[k].id = id}
KeySet(m) == {m[k].id : k \in 1..Len(m)}
Paused(id) == MapHas(sessions, id) /\ MapGet(sessions, id).isPaused
FetchesOf(fs, id) == {f \in fs : f.id = id}

\* C6: the registry never holds two entries for one session id, however often
\* addSession is called for it; an id that was added and not removed since has
\* exactly one entry.
C6_SingleEntry ==
    \A id \in SessionIds :
        /\ Cardinality(EntriesOf(sessions, id)) <= 1
        /\ MapHas(sessions, id) => Cardinality(EntriesOf(sessions, id)) = 1

\* session 1 was saved by a former visit; it was added from the dialog while
\* its lookup was in flight (the pending write of the id list was scheduled
\* with the Map still empty) and then added again by the mount effect when
\* the lookup brought it: it is the only entry
C6_Witness ==
    /\ storage = <<1>>
    /\ restore[1] = "ok"
    /\ saves = << <<>> >>
    /\ MapKeys(sessions) = <<1>>

\* C7: while the entry of a session is paused, no fetchSessionLogs call sends
\* requests for that session.
C7_PausedNoRequest ==
    [][\A id \in SessionIds :
          Paused(id) => FetchesOf(fetches', id) \subseteq FetchesOf(fetches, id)]_vars

\* C8: every lookup of the mount effect is settled on its own: a lookup that
\* brings the session adds the entry of that id to the registry and touches no
\* other key, a lookup that fails leaves the registry as it is, and neither
\* changes the lookup of another saved id.
C8_RestoreEach ==
    [][\A id \in SessionIds :
          (restore[id] = "pending" /\ restore'[id] # "pending") =>
              /\ restore'[id] = "ok" =>
                    /\ KeySet(sessions') = KeySet(sessions) \cup {id}
                    /\ Cardinality(EntriesOf(sessions', id)) = 1
              /\ restore'[id] = "failed" => sessions' = sessions
              /\ \A other \in SessionIds \ {id} : restore'[other] = restore[other]]_vars

\* saved ids <<1, 2>>, the lookup of 2 failed and the lookup of 1 succeeded:
\* exactly the entry of 1 is present
C8_Witness ==
    /\ storage = <<1, 2>>
    /\ saves = <<>>
    /\ restore[1] = "ok"
    /\ restore[2] = "failed"
    /\ MapKeys(sessions) = <<1>>

----
\* Properties of the log filter and the statistics of EnhancedLogViewer

\* the independent fields of a filter: the date range is dateFrom and dateTo
FilterFields == {"level", "searchTerm", "dateRange", "regex"}
\* the filter f with every field outside S unset; caseSensitive is the setting
\* of the viewer and is kept
Only(f, S) ==
    LET FieldOf(key) == IF key \in {"dateFrom", "dateTo"} THEN "dateRange" ELSE key
    IN  [key \in DOMAIN f |->
            IF FieldOf(key) \in S \cup {"caseSensitive"} THEN f[key] ELSE DefaultFilter[key]]

\* C9: for the log list and the filter of the viewer, and every split of the
\* filter's fields in two, filtering by the first part and then by the second
\* gives the list that filtering once by the whole filter gives (and so does
\* the opposite order, the split being arbitrary); the same for the level and
\* the search term of a panel of the multi viewer.
C9_FilterComposes ==
    /\ filteredLogs = filterLogs(logs, filter)
    /\ \A S \in SUBSET FilterFields :
          filterLogs(filterLogs(logs, Only(filter, S)), Only(filter, FilterFields \ S))
              = filteredLogs
    /\ panelFilterLogs(panelFilterLogs(logs, filter.searchTerm, "all"), <<>>, filter.level)
          = panelFilterLogs(logs, filter.searchTerm, filter.level)
    /\ panelFilterLogs(panelFilterLogs(logs, <<>>, filter.level), filter.searchTerm, "all")
          = panelFilterLogs(logs, filter.searchTerm, filter.level)

\* two logs: the level filter alone keeps only one of them, the search term
\* alone only the other, and the two together none
C9_Witness ==
    /\ Len(logs) = 2
    /\ filter.level # "all" /\ filter.searchTerm # <<>>
    /\ Len(filterLogs(logs, Only(filter, {"level"}))) = 1
    /\ Len(filterLogs(logs, Only(filter, {"searchTerm"}))) = 1
    /\ filterLogs(logs, Only(filter, {"level"})) # filterLogs(logs, Only(filter, {"searchTerm"}))
    /\ filteredLogs = <<>>

\* C10: no statistic is the result of a division by zero; over an empty
\* filtered list total, errorRate and avgLogsPerMinute are 0; and
\* avgLogsPerMinute is 0 whenever the filtered list has fewer than two logs or
\* its first and last timestamps are equal.
C10_StatsOfEmpty ==
    /\ stats.errorRate.den # 0
    /\ stats.avgLogsPerMinute.den # 0
    /\ filteredLogs = <<>> =>
          /\ stats.total = 0
          /\ IsZero(stats.errorRate)
          /\ IsZero(stats.avgLogsPerMinute)
    /\ (Len(filteredLogs) < 2
          \/ filteredLogs[1].timestamp = filteredLogs[Len(filteredLogs)].timestamp) =>
          IsZero(stats.avgLogsPerMinute)

\* the viewer holds two logs and the filter lets none of them through
C10_Witness ==
    /\ Len(logs) = 2
    /\ filteredLogs = <<>>
    /\ stats.total = 0
    /\ IsZero(stats.errorRate)

----
\* Properties of the exports of EnhancedLogViewer

\* A reader of comma-separated text (quoted fields, a doubled quote for a
\* quote): a character is inside a quoted field when an odd number of quotes
\* precedes it; commas and line breaks outside quoted fields separate the
\* fields and the rows; a field that starts with a quote loses its two
\* enclosing quotes and every second quote of what is between them.
Nth(S, n) == CHOOSE x \in S : Cardinality({y \in S : y <= x}) = n
Separators(text, ch) ==
    {i \in 1..Len(text) : text[i] = ch /\ QuotesIn(text, i - 1) % 2 = 0}
\* the pieces of text between the positions in cuts
Split(text, cuts) ==
    LET ends == cuts \cup {0, Len(text) + 1} IN
    [k \in 1..(Cardinality(ends) - 1) |->
        SubSeq(text, Nth(ends, k) + 1, Nth(ends, k + 1) - 1)]
Unquote(field) ==
    IF field # <<>> /\ field[1] = "\""
    THEN LET inner == SubSeq(field, 2, Len(field) - 1)
             kept == {j \in 1..Len(inner) :
                         inner[j] # "\"" \/ QuotesIn(inner, j) % 2 = 1}
         IN  [n \in 1..Cardinality(kept) |-> inner[Nth(kept, n)]]
    ELSE field
ParseRow(line) ==
    LET fields == Split(line, Separators(line, ",")) IN
    [k \in 1..Len(fields) |-> Unquote(fields[k])]
\* a line break at the very end of the text ends the last row
ParseCsv(text) ==
    LET lines == Split(text, Separators(text, "\n"))
        count == IF lines[Len(lines)] = <<>> THEN Len(lines) - 1 ELSE Len(lines)
    IN  [k \in 1..count |-> ParseRow(lines[k])]

HeaderRow ==
    << <<"T", "i", "m", "e", "s", "t", "a", "m", "p">>, <<"L", "e", "v", "e", "l">>,
       <<"M", "e", "s", "s", "a", "g", "e">>, <<"D", "a", "t", "a">> >>

\* C11: the content of an exported csv file, read back, is the header row and
\* then one row of four fields per exported log, in order, whose first three
\* fields are the timestamp, the level and the message of that log.
C11_CsvRoundTrip ==
    download # NoDownload =>
        LET rows == ParseCsv(download.content) IN
        /\ Len(rows) = 1 + Len(download.logs)
        /\ rows[1] = HeaderRow
        /\ \A k \in 1..Len(download.logs) :
              /\ Len(rows[k + 1]) = 4
              /\ rows[k + 1][1] = download.logs[k].timestamp
              /\ rows[k + 1][2] = Chars(download.logs[k].level)
              /\ rows[k + 1][3] = download.logs[k].message

\* the second of two logs was selected and exported: its message boom "quoted"
\* is in the file as the cell "boom ""quoted"""
C11_Witness ==
    /\ Len(filteredLogs) = 2
    /\ selectedLogs = {1}
    /\ Len(download.logs) = 1
    /\ download.logs[1].message =
          <<"b", "o", "o", "m", " ", "\"", "q", "u", "o", "t", "e", "d", "\"">>
    /\ includes(download.content,
                <<",", "\"", "b", "o", "o", "m", " ", "\"", "\"", "q", "u", "o", "t",
                  "e", "d", "\"", "\"", "\"", ",">>)

(***************************************************************************)
(* Properties of the comparison of SessionComparisonTool                   *)
(***************************************************************************)
ComparedEntries == {compared[k] : k \in 1..Len(compared)}
NotBetter(key, e, f) ==
    IF betterWhen(key) = "higher"
    THEN ~Less(f.metrics[key], e.metrics[key])
    ELSE ~Less(e.metrics[key], f.metrics[key])

\* C12: while sessions are compared, the best of every metric is a compared
\* session that no compared session beats in the metric's better direction
\* (lower for all but checkpointsCompleted) and the worst one that beats no
\* compared session; with A (two errors in ten logs) and B (none in ten)
\* compared, errorCount has best = B and worst = A.
C12_BestWorst ==
    LET TwoErrorsOfTen(e) == Len(e.logs) = 10 /\ e.metrics.errorCount = Quotient(2, 1)
        NoErrorsOfTen(e) == Len(e.logs) = 10 /\ e.metrics.errorCount = Quotient(0, 1)
    IN
    compared # <<>> =>
        /\ \A key \in MetricKeys :
              \E b, w \in ComparedEntries :
                 /\ metricAnalysis[key].best = b.id
                 /\ metricAnalysis[key].worst = w.id
                 /\ \A e \in ComparedEntries : NotBetter(key, e, b) /\ NotBetter(key, w, e)
        /\ \A a, b \in ComparedEntries :
              TwoErrorsOfTen(a) /\ NoErrorsOfTen(b) /\ Len(compared) = 2 =>
                 /\ metricAnalysis["errorCount"].best = b.id
                 /\ metricAnalysis["errorCount"].worst = a.id

C12_Witness ==
    /\ Len(compared) = 2
    /\ Len(compared[1].logs) = 10 /\ compared[1].metrics.errorCount = Quotient(2, 1)
    /\ Len(compared[2].logs) = 10 /\ compared[2].metrics.errorCount = Quotient(0, 1)
    /\ metricAnalysis["errorCount"] = [best |-> compared[2].id, worst |-> compared[1].id]
    /\ metricAnalysis["checkpointsCompleted"].best = compared[1].id

(***************************************************************************)
(* Properties of addSession, removeSession and the saved list              *)
(***************************************************************************)
SettingsOf(e) ==
    [logs |-> e.logs, isPaused |-> e.isPaused, autoScroll |-> e.autoScroll,
     searchTerm |-> e.searchTerm, logLevel |-> e.logLevel]

\* C13: when the deferred save of the last add or remove runs (no other save
\* is waiting), the saved list holds exactly the ids of the registry: the id
\* just added is in it, the id just removed is not.
C13_SavedFollowsRegistry ==
    [][(saves # <<>> /\ saves' = <<>> /\ storage' = Head(saves))
          => {storage'[k] : k \in 1..Len(storage')} = KeySet(sessions')]_vars

\* C14: the step that adds a session to the registry sends the requests of a
\* fetch for that session.
C14_ImmediateFetch ==
    [][\A id \in SessionIds :
          (~MapHas(sessions, id) /\ MapHas(sessions', id))
              => FetchesOf(fetches', id) \ FetchesOf(fetches, id) # {}]_vars

\* C15: addSession for an id the registry already holds (the mount effect
\* restoring a session the user has added meanwhile) leaves the logs, isPaused,
\* autoScroll, searchTerm and logLevel of the entry as they are.
C15_AddExistingNoOp ==
    [][\A id \in SessionIds, st \in SessionStatuses :
          (MapHas(sessions, id) /\ RestoreOk(id, st))
              => SettingsOf(MapGet(sessions', id)) = SettingsOf(MapGet(sessions, id))]_vars

(***************************************************************************)
(* Properties of the schedule of executeBatch                              *)
(***************************************************************************)
\* the waves of a run: Len(devices) / maxConcurrent, rounded up
Waves(run) == (Len(run.devices) + run.maxConcurrent - 1) \div run.maxConcurrent
InFlight(run) == {k \in DOMAIN run.tasks : run.tasks[k] = "inflight"}

\* C16: a batch created with t typed into Delay Between Starts, 0 included,
\* waits t seconds between two waves; every wait of a run is the wait of its
\* batch, and a run waits once less than it has waves (never after the last).
C16_DelayBetweenWaves ==
    [][/\ \A n \in 1..WaveDevices, c \in TypedConcurrent(WaveDevices), t \in TypedDelays :
             CreateBatch(WaveBatches, n, c, t)
                 => EffDelayMs(batches'[nextBatchId]) = t * MsPerSecond
       /\ \A r \in 1..Len(runs') :
             /\ Len(runs'[r].waited) < Waves(runs'[r])
             /\ runs'[r].pc = "done" => Len(runs'[r].waited) = Waves(runs'[r]) - 1
             /\ runs'[r].batch \in DOMAIN batches' =>
                   \A w \in 1..Len(runs'[r].waited) :
                       runs'[r].waited[w] = EffDelayMs(batches'[runs'[r].batch])]_vars

\* C17: the start requests of a run that are in flight are never more than
\* the maxConcurrent of its batch.
C17_InFlightBound ==
    \A r \in 1..Len(runs) :
        runs[r].batch \in DOMAIN batches =>
            Cardinality(InFlight(runs[r])) <= batches[runs[r].batch].maxConcurrent

\* two of three devices, maxConcurrent 2: both requests of the first wave are
\* in flight
C17_Witness ==
    \E r \in 1..Len(runs) :
        /\ runs[r].batch \in DOMAIN batches
        /\ batches[runs[r].batch].maxConcurrent = 2
        /\ Len(runs[r].devices) = 3
        /\ InFlight(runs[r]) = {1, 2}

\* C18: the lock is held only while an accepted executeBatch has not returned,
\* and an accepted executeBatch whose timers fire and whose start requests
\* resolve releases it: isExecuting is false again, and the lock check of a
\* later executeBatch passes for every batch.
C18_LockReleased ==
    [](isExecuting =>
          /\ \E r \in 1..Len(runs) : runs[r].pc # "done"
          /\ <>(~isExecuting /\ \A b \in DOMAIN batches : ~ExecutionInProgress(b)))

\* a run of two waves with a failed request has returned and the lock is free
C18_Witness ==
    /\ ~isExecuting
    /\ \A b \in DOMAIN batches : ~ExecutionInProgress(b)
    /\ \E r \in 1..Len(runs) :
          /\ runs[r].pc = "done"
          /\ Len(runs[r].waited) = 1
          /\ \E k \in DOMAIN runs[r].tasks : runs[r].tasks[k] = "failed"
          /\ \E k \in DOMAIN runs[r].tasks : runs[r].tasks[k] = "completed"

\* the device task of position k of run r is launched by the step
Launched(r, k) ==
    /\ runs'[r].tasks[k] \notin {"waiting", "stagger"}
    /\ r <= Len(runs) => runs[r].tasks[k] \in {"waiting", "stagger"}

\* C19: a device task launched while the device list does not hold the device
\* as available fails it with 'Device not available' and sends no start
\* request; a start request is sent only for a device the list holds as
\* available.
C19_UnavailableNotStarted ==
    [][\A r \in 1..Len(runs') : \A k \in DOMAIN runs'[r].tasks :
          Launched(r, k) =>
              LET d == runs'[r].devices[k] IN
              IF d \in DOMAIN devices /\ DeviceAvailable(devices, d)
              THEN runs'[r].tasks[k] = "inflight"
              ELSE /\ runs'[r].tasks[k] = "unavailable"
                   /\ runs'[r].batch \in DOMAIN executions' =>
                         executions'[runs'[r].batch].sessions[k].error
                             = "Device not available"]_vars

(***************************************************************************)
(* Properties of a failed fetch of MultiLogViewer                          *)
(***************************************************************************)
\* C20: when a request of the fetch of an entry fails, the entry gets its
\* error and keeps its logs and its session status, every other entry stays
\* as it is, and the interval goes on fetching the entries it fetched before.
C20_FetchFailureLocal ==
    [][\A f \in fetches :
          FetchFail(f) =>
              /\ MapKeys(sessions') = MapKeys(sessions)
              /\ \A id \in KeySet(sessions) :
                    IF id = f.id
                    THEN /\ MapGet(sessions', id).error = "Failed to fetch logs"
                         /\ MapGet(sessions', id).logs = MapGet(sessions, id).logs
                         /\ MapGet(sessions', id).status = MapGet(sessions, id).status
                    ELSE MapGet(sessions', id) = MapGet(sessions, id)
              /\ MapKeys(Polled(sessions')) = MapKeys(Polled(sessions))]_vars

\* an entry whose second fetch failed shows the error over the logs of its
\* first fetch, next to an entry without error; both are still polled
C20_Witness ==
    \E id, other \in KeySet(sessions) :
        /\ id # other
        /\ MapGet(sessions, id).error = "Failed to fetch logs"
        /\ MapGet(sessions, id).logs # <<>>
        /\ MapGet(sessions, other).error = NoError
        /\ KeySet(Polled(sessions)) = {id, other}

(***************************************************************************)
(* Properties of the fetches in flight of MultiLogViewer                   *)
(***************************************************************************)
\* C21: no entry has more than one fetch in flight, and so the response
\* written to an entry is never one of a fetch sent before another fetch of
\* that entry that is still in flight or has answered.
C21_OneFetchInFlight ==
    \A id \in SessionIds : Cardinality(FetchesOf(fetches, id)) <= 1

\* C22: the answer of a fetch, good or bad, for an id the registry no longer
\* holds changes nothing in the registry: the entry is not made again and the
\* other entries stay as they are.
C22_RemovedFetchDiscarded ==
    [][\A f \in fetches :
          (/\ ~MapHas(sessions, f.id)
           /\ \/ FetchFail(f)
              \/ \E st \in SessionStatuses, n \in 0..MaxLogLines : FetchOk(f, st, n))
              => sessions' = sessions]_vars

\* a fetch is in flight for a session that has been removed, next to an entry
\* that is still shown
C22_Witness ==
    \E f \in fetches :
        /\ ~MapHas(sessions, f.id)
        /\ sessions # <<>>

\* C23: pausing an entry leaves the fetches in flight as they are; the answer
\* of a fetch that was in flight is written to the paused entry, which stays
\* paused; a firing of the interval sends requests for exactly the entries
\* that are not paused, so again for an entry once it is resumed.
C23_PauseKeepsFetchInFlight ==
    [][/\ \A id \in SessionIds :
             (sessions' # sessions /\ TogglePause(id)) => fetches' = fetches
       /\ \A f \in fetches : \A st \in SessionStatuses, n \in 0..MaxLogLines :
             (Paused(f.id) /\ now' # now /\ FetchOk(f, st, n)) =>
                 /\ MapGet(sessions', f.id).logs = [k \in 1..n |-> k]
                 /\ MapGet(sessions', f.id).status = st
                 /\ MapGet(sessions', f.id).isPaused
       /\ (nextFetch' # nextFetch /\ RefreshAll(MaxFetches)) =>
             \A id \in SessionIds :
                 FetchesOf(fetches', id) # FetchesOf(fetches, id)
                     <=> (MapHas(sessions, id) /\ ~Paused(id))]_vars

\* an entry was paused while its fetch is in flight
C23_Witness ==
    \E f \in fetches : Paused(f.id) /\ ~f.awaited

(***************************************************************************)
(* Properties of the comparison set of SessionComparisonTool               *)
(***************************************************************************)
\* C24: never more than five sessions are compared.
C24_AtMostFive == Len(compared) <= MaxComparedSessions

\* C25: of the sessions that share the best value of a metric the one added
\* first is its best, of those that share the worst value the one added first
\* is its worst, and of those that share the highest count of metrics won the
\* one added first is the best overall.
C25_FirstWinsTies ==
    LET \* the first position whose session no other session beats in the
        \* metric, and the first one that beats no other
        FirstOptimal(key) ==
            CHOOSE k \in 1..Len(compared) :
                /\ \A e \in ComparedEntries : NotBetter(key, e, compared[k])
                /\ \A j \in 1..(k - 1) : ~NotBetter(key, compared[k], compared[j])
        FirstLeast(key) ==
            CHOOSE k \in 1..Len(compared) :
                /\ \A e \in ComparedEntries : NotBetter(key, compared[k], e)
                /\ \A j \in 1..(k - 1) : ~NotBetter(key, compared[j], compared[k])
        \* the first position with the highest count of metrics won
        FirstTopScore ==
            CHOOSE k \in 1..Len(compared) :
                /\ \A j \in 1..Len(compared) :
                      Score(metricAnalysis, compared[j].id)
                          <= Score(metricAnalysis, compared[k].id)
                /\ \A j \in 1..(k - 1) :
                      Score(metricAnalysis, compared[j].id)
                          < Score(metricAnalysis, compared[k].id)
    IN
    compared # <<>> =>
        /\ \A key \in MetricKeys :
              /\ metricAnalysis[key].best = compared[FirstOptimal(key)].id
              /\ metricAnalysis[key].worst = compared[FirstLeast(key)].id
        /\ BestOverallOf(compared, metricAnalysis, Len(compared)) = compared[FirstTopScore].id

\* two sessions with equal totalLogs that win three metrics each: the first
\* added is best in totalLogs and best overall
C25_Witness ==
    /\ Len(compared) = 2
    /\ compared[1].metrics.totalLogs = compared[2].metrics.totalLogs
    /\ metricAnalysis["totalLogs"].best = compared[1].id
    /\ Score(metricAnalysis, compared[1].id) = 3
    /\ Score(metricAnalysis, compared[2].id) = 3
    /\ BestOverallOf(compared, metricAnalysis, 2) = compared[1].id

\* C26: while the pattern of the regex input does not compile, the filtered
\* list is the list the same filter gives with the regex input left empty.
C26_MalformedRegexIgnored ==
    filter.regex = <<"(">> =>
        filteredLogs = filterLogs(logs, [filter EXCEPT !.regex = <<>>])

\* the pattern "(" is set, which no message contains, with a level filter
\* that keeps one of two logs
C26_Witness ==
    /\ filter.regex = <<"(">>
    /\ filter.level # "all"
    /\ Len(logs) = 2
    /\ Len(filteredLogs) = 1
    /\ \A k \in 1..Len(logs) : ~includes(logs[k].message, filter.regex)

\* the statuses a piece of the device task hands to updateSessionStatus, in
\* order, named by the mark the piece leaves on the task: the start of the
\* task up to the request or the 'Device not available' throw, and the rest
\* of the task once the request has settled (the notification of a response
\* without session id throws after the sub-record was marked completed, and
\* the catch marks it error)
StatusUpdates(task) ==
    CASE task = "inflight" -> <<"running">>
      [] task = "unavailable" -> <<"running", "error">>
      [] task = "completed" -> <<"completed">>
      [] task = "nosession" -> <<"completed", "error">>
      [] task = "failed" -> <<"error">>
      [] OTHER -> <<>>

\* C27: every status a device task gives to a sub-record follows the status
\* the sub-record had in the order pending -> running -> completed | error, so
\* a sub-record that is completed or error is given no other status.
C27_StatusOrder ==
    [][LET \* pending -> running -> completed | error
           StatusOrder(from, to) ==
               \/ from = "pending" /\ to = "running"
               \/ from = "running" /\ to \in {"completed", "error"}
           \* the status of the sub-record of device d of batch b before the
           \* step; the sub-records of an execution the step creates start
           \* pending
           StatusBefore(r, b, d) ==
               IF r > Len(runs) THEN "pending"
               ELSE executions[b].sessions[FindSession(executions[b].sessions, d)].status
       IN  \A r \in 1..Len(runs') :
              \A k \in DOMAIN runs'[r].tasks :
                 LET b == runs'[r].batch
                     d == runs'[r].devices[k]
                     moved == r > Len(runs) \/ runs[r].tasks[k] # runs'[r].tasks[k]
                 IN  (moved /\ b \in DOMAIN executions') =>
                        LET chain == <<StatusBefore(r, b, d)>>
                                        \o StatusUpdates(runs'[r].tasks[k])
                        IN  /\ executions'[b].sessions[
                                   FindSession(executions'[b].sessions, d)].status
                                  = chain[Len(chain)]
                            /\ \A i \in 1..(Len(chain) - 1) :
                                  StatusOrder(chain[i], chain[i + 1])
      ]_vars

\* C28 as stated: the error rate of the filtered list is the number of its
\* error logs divided by its length, a value between 0 and 1, and 0 for the
\* empty list.
C28_ErrorRateFraction ==
    LET ErrorsShown == Cardinality({k \in 1..Len(filteredLogs) : filteredLogs[k].level = "error"})
    IN
    /\ filteredLogs = <<>> => IsZero(stats.errorRate)
    /\ filteredLogs # <<>> =>
          /\ stats.errorRate.den > 0
          /\ stats.errorRate.num * Len(filteredLogs) = ErrorsShown * stats.errorRate.den
          /\ 0 <= stats.errorRate.num
          /\ stats.errorRate.num <= stats.errorRate.den

\* C28 as amended: the error rate of the filtered list is the number of its
\* error logs divided by its length and multiplied by 100, a percentage
\* between 0 and 100, and 0 for the empty list.
C28_ErrorRatePercent ==
    LET ErrorsShown == Cardinality({k \in 1..Len(filteredLogs) : filteredLogs[k].level = "error"})
    IN
    /\ filteredLogs = <<>> => IsZero(stats.errorRate)
    /\ filteredLogs # <<>> =>
          /\ stats.errorRate.den > 0
          /\ stats.errorRate.num * Len(filteredLogs)
                = ErrorsShown * Percent * stats.errorRate.den
          /\ 0 <= stats.errorRate.num
          /\ stats.errorRate.num <= Percent * stats.errorRate.den

\* a filter that keeps two logs, one of them an error: the rate is 50
C28_Witness ==
    /\ filter # DefaultFilter
    /\ Len(filteredLogs) = 2
    /\ Cardinality({k \in 1..Len(filteredLogs) : filteredLogs[k].level = "error"}) = 1
    /\ stats.errorRate.num = 50 * stats.errorRate.den

\* C29: clearAllSessions leaves the registry empty and the stored key list
\* empty, and leaves no save of an earlier addSession or removeSession waiting
\* that writes session ids to the storage when its timer fires.
C29_ClearedStaysEmpty ==
    [][ClearAllSessions =>
          /\ sessions' = <<>>
          /\ storage' = <<>>
          /\ \A k \in 1..Len(saves') : saves'[k] = <<>>
      ]_vars

\* C30: while an executeBatch call has not returned and its batch is deleted,
\* no step brings the batch or its execution record back, and the step with
\* which the call returns releases the lock.
C30_DeletedStaysDeleted ==
    [][\A r \in 1..Len(runs) :
          LET b == runs[r].batch
          IN  (runs[r].pc # "done" /\ b \notin DOMAIN batches) =>
                 /\ b \notin DOMAIN batches'
                 /\ b \notin DOMAIN executions'
                 /\ runs'[r].pc = "done" => ~isExecuting'
      ]_vars

\* the batch of a call that holds the lock and waits for a start request is
\* deleted, with its execution record
C30_Witness ==
    \E r \in 1..Len(runs) :
        /\ isExecuting
        /\ runs[r].pc = "wave"
        /\ runs[r].batch \notin DOMAIN batches
        /\ runs[r].batch \notin DOMAIN executions
        /\ \E k \in DOMAIN runs[r].tasks : runs[r].tasks[k] = "inflight"

====
